---------------------------- MODULE Spec2Model ----------------------------
(***************************************************************************)
(* A model of ewgpal.py, the EpicWorldGenerator biome palette generator.   *)
(*                                                                         *)
(* The script is one sequential pipeline: parse the command line (which    *)
(* opens the output file), load every biome JSON file, expand the biomes   *)
(* into colour patches, plan a wrapped grid, draw it, save the image.      *)
(* Each step of the pipeline, and each iteration of its loops, is one      *)
(* action; pc is the position of the script.                               *)
(*                                                                         *)
(* Python strings whose characters the script inspects (names that are     *)
(* sorted, colour codes that are tested for a leading '#' and parsed as    *)
(* hex) are sequences of one-character strings.                            *)
(***************************************************************************)
EXTENDS Integers, Sequences, FiniteSets

(***************************************************************************)
(* Bounds of the model.                                                    *)
(***************************************************************************)
\* Most files glob.glob returns in a run of Spec.
MaxFiles == 3
\* Most colours of one biome in a run of SpecWide.
MaxWideColors == 27
\* Longest string handed to colorCode in SpecColorCode.
MaxStrLen == 7
\* SpecContrast samples every component within this distance of 123.
ColorSpread == 2
\* Resolution of the fixed-point stand-in for the float pow(x, 1/3.0).
FixedPointScale == 100

(***************************************************************************)
(* Strings.                                                                *)
(***************************************************************************)
\* The characters the model uses, in code point order.
Chars == << "#", "0", "1", "2", "3", "4", "5", "6", "7", "8", "9",
            "A", "B", "C", "D", "E", "F", "Z",
            "a", "b", "c", "d", "e", "f", "z" >>

\* ord(ch), up to an order-preserving renumbering.
Ord(ch) == CHOOSE i \in 1..Len(Chars) : Chars[i] = ch

Min(a, b) == IF a <= b THEN a ELSE b

\* Python's str.__lt__: the first differing character decides, a proper
\* prefix sorts first.
StrLess(a, b) ==
    \E i \in 1..(Min(Len(a), Len(b)) + 1) :
        /\ \A j \in 1..(i - 1) : a[j] = b[j]
        /\ \/ i > Len(a) /\ i <= Len(b)
           \/ i <= Len(a) /\ i <= Len(b) /\ Ord(a[i]) < Ord(b[i])

\* A list holding the elements of S in reverse sorted order.
RECURSIVE ReverseSorted(_)
ReverseSorted(S) ==
    IF S = {} THEN << >>
    ELSE LET m == CHOOSE x \in S : \A y \in S \ {x} : StrLess(y, x)
         IN  << m >> \o ReverseSorted(S \ {m})

\* sorted(S) for a set (the keys of a dict) of strings.
RECURSIVE sorted(_)
sorted(S) ==
    IF S = {} THEN << >>
    ELSE LET m == CHOOSE x \in S : \A y \in S \ {x} : StrLess(x, y)
         IN  << m >> \o sorted(S \ {m})

\* str.startswith('#').
StartsWithHash(s) == Len(s) >= 1 /\ s[1] = "#"

\* A colorCode that prepends '#' whatever the code begins with.
colorCodeAlways(hex) == << "#" >> \o hex

\* colorCode(hex), line 83.
colorCode(hex) == IF StartsWithHash(hex) THEN hex ELSE << "#" >> \o hex

HexDigits == << "0", "1", "2", "3", "4", "5", "6", "7", "8", "9",
                "a", "b", "c", "d", "e", "f" >>

\* str.lower() on the characters a colour code can hold.
Lower(ch) ==
    CASE ch = "A" -> "a" [] ch = "B" -> "b" [] ch = "C" -> "c"
      [] ch = "D" -> "d" [] ch = "E" -> "e" [] ch = "F" -> "f"
      [] ch = "Z" -> "z" [] OTHER -> ch

IsHexChar(ch) == \E i \in 1..16 : HexDigits[i] = Lower(ch)

HexVal(ch) == (CHOOSE i \in 1..16 : HexDigits[i] = Lower(ch)) - 1

\* ImageColor.getrgb(color) for the forms a biome file holds: '#rrggbb' and
\* '#rgb' give the triple, anything else raises ValueError ("invalid").
getrgb(color) ==
    IF /\ Len(color) = 7
       /\ color[1] = "#"
       /\ \A i \in 2..7 : IsHexChar(color[i])
    THEN << 16 * HexVal(color[2]) + HexVal(color[3]),
            16 * HexVal(color[4]) + HexVal(color[5]),
            16 * HexVal(color[6]) + HexVal(color[7]) >>
    ELSE IF /\ Len(color) = 4
            /\ color[1] = "#"
            /\ \A i \in 2..4 : IsHexChar(color[i])
    THEN << 17 * HexVal(color[2]), 17 * HexVal(color[3]), 17 * HexVal(color[4]) >>
    ELSE "invalid"

\* The brightness threshold of contrastingColor.
Threshold == 123

\* The numerator of brightness; brightness is this over 1000 (true division).
BrightnessNum(rgb) == rgb[1] * 299 + rgb[2] * 587 + rgb[3] * 114

\* A contrastingColor whose comparison is not strict.
contrastingColorLeq(rgb) ==
    IF BrightnessNum(rgb) <= Threshold * 1000 THEN "#ffffff" ELSE "#000000"

\* contrastingColor(rgb), lines 93-94: brightness < 123 with brightness the
\* exact quotient BrightnessNum / 1000.
contrastingColor(rgb) ==
    IF BrightnessNum(rgb) < Threshold * 1000 THEN "#ffffff" ELSE "#000000"

(***************************************************************************)
(* Font metrics.  ImageFont.truetype("arial", 16) is outside the script;   *)
(* the model measures text with a fixed advance per character.             *)
(***************************************************************************)
\* font.getsize(text): (width, height) in pixels.
getsize(text) == << 9 * Len(text), 18 >>

\* Number of text line heights reserved in a patch.
patchTextRows == 7

(***************************************************************************)
(* The inputs: what glob.glob finds under settings/biomes.                 *)
(***************************************************************************)
Bare == << "f", "f", "0", "0", "0", "0" >>

Hashed == << "#", "0", "0", "0", "0", "F", "F" >>

NotAColor == << "z", "z" >>

TypeD == << "D" >>

TypeF == << "F" >>

BaseNames == { << "a" >>, << "b" >> }

\* The decoded objects of the small input set.
SmallBiomes ==
    { [enabled |-> TRUE, biomeType |-> TypeD, biomeColors |-> cs] :
          cs \in { << >>, << Bare >>, << Hashed, Bare >> } }
    \cup { [enabled |-> FALSE, biomeType |-> TypeF, biomeColors |-> cs] :
          cs \in { << >>, << Hashed >> } }
    \cup { [enabled |-> TRUE, biomeColors |-> << Bare >>],
           [biomeType |-> TypeD, biomeColors |-> << Bare >>],
           [enabled |-> TRUE, biomeType |-> TypeF] }

\* A file is its base name and either a decoded object or a syntax error.
SmallFiles ==
    { [base |-> b, decodes |-> TRUE, biome |-> o] :
          b \in BaseNames, o \in SmallBiomes }
    \cup { [base |-> b, decodes |-> FALSE] : b \in BaseNames }

SeqsUpTo(S, n) == UNION { [1..k -> S] : k \in 0..n }

\* k colours, alternately bare and '#'-prefixed; with bad, the last one is
\* not a colour.
WideColors(k, bad) ==
    [i \in 1..k |-> IF bad /\ i = k THEN NotAColor
                    ELSE IF i % 2 = 1 THEN Bare ELSE Hashed]

\* One biome file per type, each with up to MaxWideColors colours; the type
\* drawn last may end in a code that is no colour.
WideFilesOf(t) ==
    { [base |-> << "a" >>, decodes |-> TRUE,
       biome |-> [enabled |-> TRUE, biomeType |-> t,
                  biomeColors |-> WideColors(k, bad)]] :
          k \in 0..MaxWideColors, bad \in IF t = TypeF THEN BOOLEAN ELSE {FALSE} }

WideInputs ==
    { << >> }
    \cup { << f >> : f \in WideFilesOf(TypeD) \cup WideFilesOf(TypeF) }
    \cup { << f, d >> : f \in WideFilesOf(TypeF), d \in WideFilesOf(TypeD) }

(***************************************************************************)
(* The state of the script.                                                *)
(***************************************************************************)
VARIABLES
    pc,             \* position of the script
    crash,          \* the uncaught exception that ended the run, or "none"
    outputFile,     \* args.output on disk: "absent", "created", "written"
    files,          \* what glob.glob returns, in its order
    fileIdx,        \* number of files the loading loop has finished
    stderr,         \* the lines eprint has written
    biomesByType,   \* biomeType -> (baseName -> biome)
    biomePatches,   \* biomeType -> list of patches
    maxPatches, wrapColumns, biomeTypeRows, rows, columns,
    firstColumnWidth, patchWidth, patchHeight, imageSize,
    typeIdx, r, c, row,   \* the render loops
    draws,          \* the rectangles drawn on img, in order
    codes,          \* SpecColorCode: a string and its successive colorCodes
    rgb, textColor  \* SpecContrast: a triple and its contrastingColor

layoutVars == << maxPatches, wrapColumns, biomeTypeRows, rows, columns,
                 firstColumnWidth, patchWidth, patchHeight, imageSize >>

renderVars == << typeIdx, r, c, row, draws >>

pureVars == << codes, rgb, textColor >>

vars == << pc, crash, outputFile, files, fileIdx, stderr, biomesByType,
           biomePatches, layoutVars, renderVars, pureVars >>

EmptyMap == [x \in {} |-> x]

\* Everything but the input of the run.
InitRest ==
    /\ crash = "none"
    /\ outputFile = "absent"
    /\ fileIdx = 0
    /\ stderr = << >>
    /\ biomesByType = EmptyMap
    /\ biomePatches = EmptyMap
    /\ maxPatches = 0 /\ wrapColumns = 0 /\ biomeTypeRows = EmptyMap
    /\ rows = 0 /\ columns = 0
    /\ firstColumnWidth = 0 /\ patchWidth = 0 /\ patchHeight = 0
    /\ imageSize = << 0, 0 >>
    /\ typeIdx = 0 /\ r = 0 /\ c = 0 /\ row = 0
    /\ draws = << >>

InitPure ==
    /\ codes = << >>
    /\ rgb = << 0, 0, 0 >>
    /\ textColor = "none"

Init ==
    /\ pc = "parse"
    /\ files \in SeqsUpTo(SmallFiles, MaxFiles)
    /\ InitRest
    /\ InitPure

InitWide ==
    /\ pc = "parse"
    /\ files \in WideInputs
    /\ InitRest
    /\ InitPure

(***************************************************************************)
(* Command line, lines 99-136.  The world directory is readable; argparse  *)
(* applies type=FileType('wb') to --output, also to its default, so        *)
(* parse_args opens (creates, truncates) the output file.                  *)
(***************************************************************************)
ParseArgs ==
    /\ pc = "parse"
    /\ outputFile' = "created"
    /\ pc' = "load"
    /\ UNCHANGED << crash, files, fileIdx, stderr, biomesByType, biomePatches,
                    layoutVars, renderVars, pureVars >>

(***************************************************************************)
(* Config loading, lines 139-149.                                          *)
(***************************************************************************)
\* d[k] = v on a dict.
Put(d, k, v) == [x \in DOMAIN d \cup {k} |-> IF x = k THEN v ELSE d[x]]

\* byType[t] of a defaultdict(dict).
GetDefault(byType, t) == IF t \in DOMAIN byType THEN byType[t] ELSE EmptyMap

\* A loader without the except clause: the decode error ends the run.
LoadOneUncaught(byType, file) ==
    IF ~file.decodes
    THEN [byType |-> byType, err |-> << >>, crash |-> "JSONDecodeError"]
    ELSE IF "enabled" \notin DOMAIN file.biome
            \/ "biomeType" \notin DOMAIN file.biome
    THEN [byType |-> byType, err |-> << >>, crash |-> "KeyError"]
    ELSE [byType |-> Put(byType, file.biome.biomeType,
                         Put(GetDefault(byType, file.biome.biomeType),
                             file.base, file.biome)),
          err |-> << >>, crash |-> "none"]

\* The body of the loading loop for one file: the grouping after it, the
\* lines it prints, the exception it lets through.
LoadOne(byType, file) ==
    IF ~file.decodes
    THEN [byType |-> byType,
          err |-> << [text |-> "JSON error", file |-> file.base] >>,
          crash |-> "none"]
    ELSE IF "enabled" \notin DOMAIN file.biome
            \/ "biomeType" \notin DOMAIN file.biome
    THEN [byType |-> byType, err |-> << >>, crash |-> "KeyError"]
    ELSE [byType |-> Put(byType, file.biome.biomeType,
                         Put(GetDefault(byType, file.biome.biomeType),
                             file.base, file.biome)),
          err |-> << >>, crash |-> "none"]

LoadFile ==
    /\ pc = "load"
    /\ fileIdx < Len(files)
    /\ LET res == LoadOne(biomesByType, files[fileIdx + 1])
       IN  /\ biomesByType' = res.byType
           /\ stderr' = stderr \o res.err
           /\ crash' = res.crash
           /\ pc' = IF res.crash = "none" THEN "load" ELSE "crashed"
    /\ fileIdx' = fileIdx + 1
    /\ UNCHANGED << outputFile, files, biomePatches, layoutVars, renderVars,
                    pureVars >>

(***************************************************************************)
(* Patch extraction, lines 152-157.                                        *)
(***************************************************************************)
\* The (biomeType, biomeName) pairs in the order the nested loops visit them.
RECURSIVE VisitOrder(_, _)
VisitOrder(byType, types) ==
    IF types = << >> THEN << >>
    ELSE LET t == Head(types)
             names == sorted(DOMAIN byType[t])
         IN  [i \in 1..Len(names) |-> << t, names[i] >>]
             \o VisitOrder(byType, Tail(types))

\* The patches of one biome, in the order of its biomeColors.
PatchesOfBiome(name, biome) ==
    [i \in 1..Len(biome.biomeColors) |->
        [biomeName |-> name, biomeColor |-> colorCode(biome.biomeColors[i])]]

\* biomePatches[t] of a defaultdict(list), extended by ps; the key exists
\* only once something is appended.
Extend(patches, t, ps) ==
    IF ps = << >> THEN patches
    ELSE Put(patches, t, (IF t \in DOMAIN patches THEN patches[t] ELSE << >>) \o ps)

RECURSIVE ExtractFrom(_, _, _)
ExtractFrom(byType, visit, patches) ==
    IF visit = << >> THEN [patches |-> patches, crash |-> "none"]
    ELSE LET t == Head(visit)[1]
             n == Head(visit)[2]
             biome == byType[t][n]
         IN  IF "biomeColors" \notin DOMAIN biome
             THEN [patches |-> patches, crash |-> "KeyError"]
             ELSE ExtractFrom(byType, Tail(visit),
                              Extend(patches, t, PatchesOfBiome(n, biome)))

Extract ==
    /\ pc = "load"
    /\ fileIdx = Len(files)
    /\ LET res == ExtractFrom(biomesByType,
                              VisitOrder(biomesByType, sorted(DOMAIN biomesByType)),
                              EmptyMap)
       IN  /\ biomePatches' = res.patches
           /\ crash' = res.crash
           /\ pc' = IF res.crash = "none" THEN "plan" ELSE "crashed"
    /\ UNCHANGED << outputFile, files, fileIdx, stderr, biomesByType,
                    layoutVars, renderVars, pureVars >>

(***************************************************************************)
(* Layout planning, lines 168-203.                                         *)
(***************************************************************************)
MaxOf(S) == CHOOSE x \in S : \A y \in S : y <= x

\* pow(m, 1/3.0) in fixed point: the largest multiple of 1/FixedPointScale
\* whose cube does not exceed m.  The float the script computes lies within
\* one unit of the last place of the real cube root, never above an exact
\* integer root.
RECURSIVE CubeRootBetween(_, _, _)
CubeRootBetween(m, lo, hi) ==
    IF hi - lo <= 1 THEN lo
    ELSE LET mid == (lo + hi) \div 2
         IN  IF mid * mid * mid
                   <= m * FixedPointScale * FixedPointScale * FixedPointScale
             THEN CubeRootBetween(m, mid, hi)
             ELSE CubeRootBetween(m, lo, mid)

\* The root of m >= 0 is below (m + 2) / 3 + 1.
PowThird(m) == CubeRootBetween(m, 0, ((m + 2) * FixedPointScale) \div 3 + FixedPointScale)

\* int(ceil(x)) of a fixed-point x.
CeilFixed(q) == (q + FixedPointScale - 1) \div FixedPointScale

\* A wrap threshold that truncates the cube root instead of rounding it up.
wrapColumnsTruncated(m) == 3 * (PowThird(m) \div FixedPointScale)

\* wrapColumns, line 172.
wrapColumnsOf(m) == 3 * CeilFixed(PowThird(m))

\* A row count that rounds down.
wrappedRowsFloor(n, wrap) == n \div wrap

\* wrappedRows, line 176.
wrappedRowsOf(n, wrap) == (wrap - 1 + n) \div wrap

\* columns, line 182.
columnsOf(m, wrap) == Min(m, wrap)

\* Lines 169-174.  max() of no patch list raises ValueError.
PlanStart ==
    /\ pc = "plan"
    /\ IF DOMAIN biomePatches = {}
       THEN /\ crash' = "ValueError"
            /\ pc' = "crashed"
            /\ UNCHANGED << maxPatches, wrapColumns >>
       ELSE /\ maxPatches' = MaxOf({ Len(biomePatches[t]) : t \in DOMAIN biomePatches })
            /\ wrapColumns' = wrapColumnsOf(maxPatches')
            /\ pc' = "planRows"
            /\ UNCHANGED crash
    /\ biomeTypeRows' = EmptyMap
    /\ rows' = 0
    /\ UNCHANGED << outputFile, files, fileIdx, stderr, biomesByType,
                    biomePatches, columns, firstColumnWidth, patchWidth,
                    patchHeight, imageSize, renderVars, pureVars >>

\* One iteration of the loop of lines 175-178; iteritems() visits the types
\* in an order of its own.
PlanType ==
    /\ pc = "planRows"
    /\ \E t \in DOMAIN biomePatches \ DOMAIN biomeTypeRows :
          LET wrappedRows == wrappedRowsOf(Len(biomePatches[t]), wrapColumns)
          IN  /\ biomeTypeRows' = Put(biomeTypeRows, t, wrappedRows)
              /\ rows' = rows + wrappedRows
    /\ UNCHANGED << pc, crash, outputFile, files, fileIdx, stderr, biomesByType,
                    biomePatches, maxPatches, wrapColumns, columns,
                    firstColumnWidth, patchWidth, patchHeight, imageSize,
                    renderVars, pureVars >>

patchPadding == getsize(<< " ", " ", " " >>)[1]

AllPatches == UNION { { biomePatches[t][i] : i \in 1..Len(biomePatches[t]) } :
                      t \in DOMAIN biomePatches }

\* Lines 182-207: the column count, the cell sizes, the image, row = 0.
PlanFinish ==
    /\ pc = "planRows"
    /\ DOMAIN biomeTypeRows = DOMAIN biomePatches
    /\ columns' = columnsOf(maxPatches, wrapColumns)
    /\ firstColumnWidth' =
          2 * patchPadding + MaxOf({ getsize(t)[1] : t \in DOMAIN biomePatches })
    /\ patchWidth' =
          MaxOf({0} \cup { getsize(p.biomeName)[1] + 2 * patchPadding : p \in AllPatches })
    /\ patchHeight' =
          MaxOf({0} \cup { patchTextRows * getsize(p.biomeName)[2] + 2 * patchPadding :
                           p \in AllPatches })
    /\ imageSize' = << 1 + firstColumnWidth' + patchWidth' * columns',
                       1 + patchHeight' * rows >>
    /\ row' = 0
    /\ typeIdx' = 1
    /\ r' = 0
    /\ pc' = "row"
    /\ UNCHANGED << crash, outputFile, files, fileIdx, stderr, biomesByType,
                    biomePatches, maxPatches, wrapColumns, biomeTypeRows, rows,
                    c, draws, pureVars >>

(***************************************************************************)
(* Rendering, lines 208-245.                                               *)
(***************************************************************************)
\* The list the outer loop iterates.
RenderTypes == sorted(DOMAIN biomePatches)

\* The type of the current iteration of the outer loop.
CurrentType == RenderTypes[typeIdx]

\* A patch index that is one too far.
patchIndexOffByOne(rr, cc, cols) == rr * cols + cc + 1

\* patchIndex, line 219.
patchIndexOf(rr, cc, cols) == rr * cols + cc

\* Lines 211-215: the next wrapped row begins with its label cell.
DrawLabel ==
    /\ pc = "row"
    /\ typeIdx <= Len(RenderTypes)
    /\ r < biomeTypeRows[CurrentType]
    /\ draws' = Append(draws,
          [kind |-> "label", type |-> CurrentType, row |-> row,
           rect |-> << 0, row * patchHeight,
                       firstColumnWidth, (row + 1) * patchHeight >>])
    /\ c' = 0
    /\ pc' = "patch"
    /\ UNCHANGED << crash, outputFile, files, fileIdx, stderr, biomesByType,
                    biomePatches, layoutVars, typeIdx, r, row, pureVars >>

\* Lines 218-243: one patch of the row; getrgb raises ValueError on a code
\* that is no colour.
DrawPatch ==
    /\ pc = "patch"
    /\ c < columns
    /\ patchIndexOf(r, c, columns) < Len(biomePatches[CurrentType])
    /\ LET patchIndex == patchIndexOf(r, c, columns)
           patch == biomePatches[CurrentType][patchIndex + 1]
           color == getrgb(patch.biomeColor)
       IN  IF color = "invalid"
           THEN /\ crash' = "ValueError"
                /\ pc' = "crashed"
                /\ UNCHANGED << c, draws >>
           ELSE /\ draws' = Append(draws,
                      [kind |-> "patch", type |-> CurrentType,
                       index |-> patchIndex, patch |-> patch,
                       row |-> row, col |-> c,
                       rect |-> << firstColumnWidth + c * patchWidth,
                                   row * patchHeight,
                                   firstColumnWidth + (c + 1) * patchWidth,
                                   (row + 1) * patchHeight >>,
                       fill |-> color, text |-> contrastingColor(color)])
                /\ c' = c + 1
                /\ UNCHANGED << crash, pc >>
    /\ UNCHANGED << outputFile, files, fileIdx, stderr, biomesByType,
                    biomePatches, layoutVars, typeIdx, r, row, pureVars >>

\* A row end that leaves the row counter alone.
EndRowSameRow ==
    /\ pc = "patch"
    /\ c >= columns \/ patchIndexOf(r, c, columns) >= Len(biomePatches[CurrentType])
    /\ r' = r + 1
    /\ pc' = "row"
    /\ UNCHANGED << crash, outputFile, files, fileIdx, stderr, biomesByType,
                    biomePatches, layoutVars, typeIdx, c, row, draws, pureVars >>

\* Lines 218-221 and 245: the columns are used up or the patches are, and
\* the row is finished.
EndRow ==
    /\ pc = "patch"
    /\ c >= columns \/ patchIndexOf(r, c, columns) >= Len(biomePatches[CurrentType])
    /\ row' = row + 1
    /\ r' = r + 1
    /\ pc' = "row"
    /\ UNCHANGED << crash, outputFile, files, fileIdx, stderr, biomesByType,
                    biomePatches, layoutVars, typeIdx, c, draws, pureVars >>

\* Lines 208-211: the rows of the type are done, on to the next type.
NextType ==
    /\ pc = "row"
    /\ typeIdx <= Len(RenderTypes)
    /\ r >= biomeTypeRows[CurrentType]
    /\ typeIdx' = typeIdx + 1
    /\ r' = 0
    /\ UNCHANGED << pc, crash, outputFile, files, fileIdx, stderr, biomesByType,
                    biomePatches, layoutVars, c, row, draws, pureVars >>

\* Lines 247-249: every type is drawn; the image is written to args.output.
Save ==
    /\ pc = "row"
    /\ typeIdx > Len(RenderTypes)
    /\ outputFile' = "written"
    /\ pc' = "done"
    /\ UNCHANGED << crash, files, fileIdx, stderr, biomesByType, biomePatches,
                    layoutVars, renderVars, pureVars >>

Next ==
    \/ ParseArgs
    \/ LoadFile
    \/ Extract
    \/ PlanStart
    \/ PlanType
    \/ PlanFinish
    \/ DrawLabel
    \/ DrawPatch
    \/ EndRow
    \/ NextType
    \/ Save

Spec == Init /\ [][Next]_vars

SpecWide == InitWide /\ [][Next]_vars

(***************************************************************************)
(* The two pure functions on their own: an argument drawn from a bounded   *)
(* set, and the function applied to it.                                    *)
(***************************************************************************)
pipelineVars == << crash, outputFile, files, fileIdx, stderr, biomesByType,
                   biomePatches, layoutVars, renderVars >>

CodeChars == { "#", "0", "F" }

InitColorCode ==
    /\ pc = "colorCode"
    /\ files = << >>
    /\ InitRest
    /\ codes \in { << x >> : x \in SeqsUpTo(CodeChars, MaxStrLen) }
    /\ rgb = << 0, 0, 0 >>
    /\ textColor = "none"

\* colorCode applied to the last result.
Normalize ==
    /\ pc = "colorCode"
    /\ Len(codes) < 3
    /\ codes' = Append(codes, colorCode(codes[Len(codes)]))
    /\ UNCHANGED << pc, pipelineVars, rgb, textColor >>

SpecColorCode == InitColorCode /\ [][Normalize]_vars

Components ==
    { 0, 255 } \cup ((Threshold - ColorSpread)..(Threshold + ColorSpread))

InitContrast ==
    /\ pc = "contrast"
    /\ files = << >>
    /\ InitRest
    /\ codes = << >>
    /\ rgb \in Components \X Components \X Components
    /\ textColor = "none"

Contrast ==
    /\ pc = "contrast"
    /\ textColor = "none"
    /\ textColor' = contrastingColor(rgb)
    /\ UNCHANGED << pc, pipelineVars, codes, rgb >>

SpecContrast == InitContrast /\ [][Contrast]_vars

(***************************************************************************)
(* Properties.                                                             *)
(***************************************************************************)
\* A string of exactly six hex digits.
IsBareHex6(s) == Len(s) = 6 /\ \A i \in 1..6 : IsHexChar(s[i])

\* A string of the form #RRGGBB.
IsHashHex6(s) == Len(s) = 7 /\ s[1] = "#" /\ \A i \in 2..7 : IsHexChar(s[i])

\* C7: contrastingColor returns white exactly when the brightness
\* (R*299 + G*587 + B*114) / 1000 is strictly below 123 and black otherwise;
\* black gives white text, white gives black text, and a brightness of
\* exactly 123 gives black.
C7_ContrastRule ==
    textColor # "none" =>
        LET lum == rgb[1] * 299 + rgb[2] * 587 + rgb[3] * 114
            whole == lum \div 1000
        IN  /\ textColor \in { "#ffffff", "#000000" }
            /\ (textColor = "#ffffff") <=> (whole < 123)
            /\ lum = 123 * 1000 => textColor = "#000000"
            /\ rgb = << 0, 0, 0 >> => textColor = "#ffffff"
            /\ rgb = << 255, 255, 255 >> => textColor = "#000000"

\* The brightness is exactly 123 and the text is black.
C7_Witness ==
    /\ rgb = << 123, 123, 123 >>
    /\ rgb[1] * 299 + rgb[2] * 587 + rgb[3] * 114 = 123000
    /\ textColor = "#000000"

\* C8: colorCode is idempotent; a code that begins with '#' comes back
\* unchanged, a bare code of six hex digits gets exactly one '#' in front, so
\* a valid biomeColors entry is normalized to the form #RRGGBB.
C8_ColorCodeIdempotent ==
    /\ Len(codes) >= 3 => codes[3] = codes[2]
    /\ Len(codes) >= 2 =>
          /\ StartsWithHash(codes[1]) => codes[2] = codes[1]
          /\ IsBareHex6(codes[1]) =>
                /\ Len(codes[2]) = Len(codes[1]) + 1
                /\ codes[2][1] = "#"
                /\ \A i \in 1..Len(codes[1]) : codes[2][i + 1] = codes[1][i]
          /\ (IsBareHex6(codes[1]) \/ IsHashHex6(codes[1])) => IsHashHex6(codes[2])

\* A bare six-digit code normalized twice.
C8_Witness ==
    /\ Len(codes) = 3
    /\ codes[1] = << "F", "F", "0", "0", "0", "0" >>
    /\ codes[3] = << "#", "F", "F", "0", "0", "0", "0" >>

\* The extraction loop has run to its end.
Extracted ==
    \/ pc \in { "plan", "planRows", "row", "patch", "done" }
    \/ pc = "crashed" /\ crash = "ValueError"

\* The positions of the label cells among the draws.
LabelDraws == { i \in 1..Len(draws) : draws[i].kind = "label" }

\* The positions of the patch cells among the draws.
PatchDraws == { i \in 1..Len(draws) : draws[i].kind = "patch" }

\* C1: the patch list of a type lists the type's biomes in lexicographic
\* order of biome name, the patches of one biome contiguous and in the order
\* of its biomeColors, and the types are taken in lexicographic order,
\* whatever the order the files were loaded in.
C1_PatchOrder ==
    /\ Extracted =>
          /\ DOMAIN biomePatches =
                { t \in DOMAIN biomesByType :
                    \E n \in DOMAIN biomesByType[t] :
                        biomesByType[t][n].biomeColors # << >> }
          /\ \A t \in DOMAIN biomePatches :
                LET ps == biomePatches[t]
                IN  /\ \A i, j \in 1..Len(ps) :
                          i < j => ~StrLess(ps[j].biomeName, ps[i].biomeName)
                    /\ \A n \in DOMAIN biomesByType[t] :
                          LET own == SelectSeq(ps, LAMBDA p : p.biomeName = n)
                              cs == biomesByType[t][n].biomeColors
                          IN  /\ Len(own) = Len(cs)
                              /\ \A i \in 1..Len(cs) :
                                    own[i].biomeColor = colorCode(cs[i])
                    /\ \A i \in 1..Len(ps) : ps[i].biomeName \in DOMAIN biomesByType[t]
    /\ \A i, j \in LabelDraws :
          i < j => ~StrLess(draws[j].type, draws[i].type)

\* Type F is loaded before type D and biome b before biome a; the patches
\* come out as D: a, a, b and F: a, and D is drawn above F.
C1_Witness ==
    /\ pc = "done"
    /\ DOMAIN biomePatches = { TypeD, TypeF }
    /\ files = << [base |-> << "a" >>, decodes |-> TRUE,
                   biome |-> [enabled |-> FALSE, biomeType |-> TypeF,
                              biomeColors |-> << Hashed >>]],
                  [base |-> << "b" >>, decodes |-> TRUE,
                   biome |-> [enabled |-> TRUE, biomeType |-> TypeD,
                              biomeColors |-> << Bare >>]],
                  [base |-> << "a" >>, decodes |-> TRUE,
                   biome |-> [enabled |-> TRUE, biomeType |-> TypeD,
                              biomeColors |-> << Hashed, Bare >>]] >>
    /\ biomePatches[TypeD] =
          << [biomeName |-> << "a" >>, biomeColor |-> Hashed],
             [biomeName |-> << "a" >>, biomeColor |-> << "#" >> \o Bare],
             [biomeName |-> << "b" >>, biomeColor |-> << "#" >> \o Bare] >>
    /\ draws[1].type = TypeD
    /\ draws[Len(draws)].type = TypeF

\* The files the loading loop has finished.
Loaded == SubSeq(files, 1, fileIdx)

\* The loading loop run over a list of files, from an empty grouping; an
\* exception ends it.
RECURSIVE LoadAll(_, _)
LoadAll(fs, acc) ==
    IF fs = << >> \/ acc.crash # "none" THEN acc
    ELSE LET res == LoadOne(acc.byType, Head(fs))
         IN  LoadAll(Tail(fs), [byType |-> res.byType, crash |-> res.crash])

\* C2: a malformed JSON file gets exactly one diagnostic, adds no record to
\* the grouping and does not stop the loading of the files after it: the
\* grouping is the one the same files give with the malformed ones removed.
C2_MalformedSkipped ==
    LET malformed == SelectSeq(Loaded, LAMBDA f : ~f.decodes)
        wellFormed == SelectSeq(Loaded, LAMBDA f : f.decodes)
        without == LoadAll(wellFormed, [byType |-> EmptyMap, crash |-> "none"])
    IN  /\ Len(stderr) = Len(malformed)
        /\ \A i \in 1..Len(malformed) :
              stderr[i] = [text |-> "JSON error", file |-> malformed[i].base]
        /\ biomesByType = without.byType
        /\ crash # "JSONDecodeError"
        /\ without.crash # "none" => pc = "crashed" /\ crash = without.crash
        /\ (fileIdx >= 1 /\ fileIdx < Len(files) /\ ~files[fileIdx].decodes)
              => pc = "load"

\* A malformed file between two biomes of one type: one diagnostic, both
\* biomes rendered.
C2_Witness ==
    /\ pc = "done"
    /\ Len(files) = 3
    /\ files[1].decodes /\ ~files[2].decodes /\ files[3].decodes
    /\ Len(stderr) = 1
    /\ DOMAIN biomesByType = { TypeD }
    /\ DOMAIN biomesByType[TypeD] = { files[1].base, files[3].base }
    /\ files[1].base # files[3].base
    /\ Len(biomePatches[TypeD]) = 3

\* C3 as stated: a decoded record without biomeType is left out of the
\* grouping and the run goes on to load the remaining files.
C3_MissingTypeContinues ==
    (/\ fileIdx >= 1
     /\ files[fileIdx].decodes
     /\ "enabled" \in DOMAIN files[fileIdx].biome
     /\ "biomeType" \notin DOMAIN files[fileIdx].biome)
        => /\ pc # "crashed"
           /\ crash = "none"

\* C4 as stated: with no biome type left after loading, the run ends in a
\* reported "no biomes found" error, max() is never taken of an empty
\* sequence, and the output file has never been created.
C4_NoBiomesFatal ==
    (/\ pc \in { "done", "crashed" }
     /\ fileIdx = Len(files)
     /\ crash # "KeyError"
     /\ DOMAIN biomePatches = {})
        => /\ pc = "crashed"
           /\ crash = "no biomes found"
           /\ outputFile = "absent"

\* The least integer whose cube is at least m.
ExactCubeRootCeil(m) ==
    CHOOSE k \in 0..m : k * k * k >= m /\ \A d \in 0..(k - 1) : d * d * d < m

\* The least integer q with q * d >= n.
ExactCeilDiv(n, d) ==
    CHOOSE q \in 0..n : q * d >= n /\ \A e \in 0..(q - 1) : e * d < n

RECURSIVE SumOver(_, _)
SumOver(f, S) ==
    IF S = {} THEN 0
    ELSE LET x == CHOOSE y \in S : TRUE IN f[x] + SumOver(f, S \ {x})

\* The planner has computed wrapColumns.
PlanStarted == pc \in { "planRows", "row", "patch", "done" }

\* The planner has computed columns and the image size.
Planned == pc \in { "row", "patch", "done" }

\* C5: whenever the planner runs maxPatches is at least 1, and the column
\* count is min(maxPatches, 3 * k) with k the exact integer ceiling of the
\* cube root of maxPatches; 1 patch gives 1 column, 8 give 6, 27 give 9.
C5_ColumnCount ==
    /\ PlanStarted =>
          /\ maxPatches >= 1
          /\ wrapColumns = 3 * ExactCubeRootCeil(maxPatches)
    /\ Planned =>
          /\ columns = Min(maxPatches, 3 * ExactCubeRootCeil(maxPatches))
          /\ maxPatches = 1 => columns = 1
          /\ maxPatches = 8 => columns = 6
          /\ maxPatches = 27 => columns = 9

\* A palette with 27 patches in its longest type, drawn in 9 columns.
C5_Witness ==
    /\ pc = "done"
    /\ maxPatches = 27
    /\ wrapColumns = 9
    /\ columns = 9

\* C6: the row count of a type is ceil(patchCount / columns) for the final
\* column count, and the row count in the canvas height is the sum of the
\* row counts of the types, whatever order the types are visited in.
C6_RowCounts ==
    /\ PlanStarted => rows = SumOver(biomeTypeRows, DOMAIN biomeTypeRows)
    /\ Planned =>
          /\ DOMAIN biomeTypeRows = DOMAIN biomePatches
          /\ \A t \in DOMAIN biomePatches :
                biomeTypeRows[t] = ExactCeilDiv(Len(biomePatches[t]), columns)
          /\ imageSize[2] = 1 + patchHeight * rows

\* Two types, of three rows and of two: five rows in all.
C6_Witness ==
    /\ pc = "done"
    /\ DOMAIN biomePatches = { TypeD, TypeF }
    /\ Len(biomePatches[TypeD]) = 10
    /\ Len(biomePatches[TypeF]) = 27
    /\ columns = 9
    /\ biomeTypeRows[TypeD] = 2
    /\ biomeTypeRows[TypeF] = 3
    /\ rows = 5
    /\ imageSize[2] = 1 + patchHeight * 5

\* A wrapped row is being drawn (or the run ended inside one).
InRow == pc = "patch" \/ (pc = "crashed" /\ columns > 0)

\* The label cell, among the label cells L, that opens the wrapped row draw
\* i belongs to.
LabelOf(L, i) == CHOOSE j \in L : j <= i /\ \A k \in L : k <= i => k <= j

\* The index, within its type, of the wrapped row that label j opens.
WrappedRowOf(L, j) ==
    Cardinality({ k \in L : k < j /\ draws[k].type = draws[j].type })

\* The number of patches drawn in the wrapped row that label j opens: the
\* patch cells P that follow it up to the next label cell.
PatchesInRow(L, P, j) ==
    Cardinality({ i \in P : i > j /\ \A k \in L : k > j => i < k })

\* The row that label j opens is finished.
RowFinished(L, j) == (\E k \in L : k > j) \/ ~InRow

\* C9: the row counter starts at 0 and goes up by one after each wrapped row
\* and at no other time; each wrapped row of each type (types in sorted
\* order) begins with a label cell of the type at the current row, then its
\* patches are filled for c = 0, 1, ... with patchIndex = r * columns + c,
\* and the filling stops at the end of the columns or at the first patchIndex
\* that is not below the patch count of the type.
C9_RenderRows ==
    /\ pc \in { "parse", "load", "plan", "planRows" } => row = 0 /\ draws = << >>
    /\ (Planned \/ InRow) =>
          LET L == LabelDraws
              P == PatchDraws
          IN  /\ row = Cardinality(L) - (IF InRow THEN 1 ELSE 0)
              /\ \A j \in L :
                    /\ draws[j].row = Cardinality({ k \in L : k < j })
                    /\ \A k \in L : k < j => ~StrLess(draws[j].type, draws[k].type)
                    /\ RowFinished(L, j) =>
                          PatchesInRow(L, P, j) =
                              Min(columns,
                                  Len(biomePatches[draws[j].type])
                                      - WrappedRowOf(L, j) * columns)
              /\ \A i \in P :
                    /\ \E j \in L : j < i
                    /\ LET j == LabelOf(L, i)
                       IN  /\ draws[i].type = draws[j].type
                           /\ draws[i].row = draws[j].row
                           /\ draws[i].col = i - j - 1
                           /\ draws[i].col < columns
                           /\ draws[i].index = WrappedRowOf(L, j) * columns + draws[i].col
                           /\ draws[i].index < Len(biomePatches[draws[i].type])
                           /\ draws[i].patch =
                                 biomePatches[draws[i].type][draws[i].index + 1]

\* A type of 10 patches in 9 columns: its second row holds one patch and
\* eight cells are left undrawn.
C9_Witness ==
    /\ pc = "done"
    /\ columns = 9
    /\ TypeD \in DOMAIN biomePatches
    /\ Len(biomePatches[TypeD]) = 10
    /\ \E j \in LabelDraws :
          /\ draws[j].type = TypeD
          /\ WrappedRowOf(LabelDraws, j) = 1
          /\ PatchesInRow(LabelDraws, PatchDraws, j) = 1
    /\ row = rows

\* C10: when rendering finishes every patch of every type has been drawn
\* exactly once, no two patches in the same cell, every cell within the
\* rows and columns of the canvas (its rectangle inside the image), every
\* wrapped row holds at least one patch, and the row counter has reached the
\* row count used for the canvas height.
C10_EveryPatchOnce ==
    LET P == PatchDraws
    IN  /\ \A i \in P :
              /\ draws[i].row < rows
              /\ draws[i].col < columns
              /\ 0 <= draws[i].rect[1] /\ draws[i].rect[1] <= draws[i].rect[3]
              /\ 0 <= draws[i].rect[2] /\ draws[i].rect[2] <= draws[i].rect[4]
              /\ draws[i].rect[3] < imageSize[1]
              /\ draws[i].rect[4] < imageSize[2]
        /\ \A i, j \in P :
              (draws[i].row = draws[j].row /\ draws[i].col = draws[j].col) => i = j
        /\ pc = "done" =>
              /\ \A t \in DOMAIN biomePatches :
                    \A k \in 0..(Len(biomePatches[t]) - 1) :
                        Cardinality({ i \in P :
                                        draws[i].type = t /\ draws[i].index = k }) = 1
              /\ \A j \in LabelDraws :
                    \E i \in P : draws[i].row = draws[j].row
              /\ row = rows
              /\ imageSize = << 1 + firstColumnWidth + patchWidth * columns,
                                1 + patchHeight * rows >>

\* Both types wrapped, all 37 patches drawn in 5 rows.
C10_Witness ==
    /\ pc = "done"
    /\ DOMAIN biomePatches = { TypeD, TypeF }
    /\ Len(biomePatches[TypeD]) = 27
    /\ Len(biomePatches[TypeF]) = 10
    /\ Cardinality(PatchDraws) = 37
    /\ row = 5

=============================================================================
